---- MODULE Spec2Model ----
(***************************************************************************)
(* State-machine model of the WebGL 2D triangle game: GameModel            *)
(* (src/model.js) and the loop driver GameController (src/controller.js).  *)
(*                                                                         *)
(* Lengths are integers in units of 0.005 world units, so that 1.0 is One  *)
(* = 200, the triangle size 0.1 is 20 and the movement step 0.01 is 2.     *)
(* Math.random() is modelled by a stream of integers k, each standing for  *)
(* the value k / 360 in [0,1); createGameObjects consumes the stream in    *)
(* the order the code calls Math.random().                                 *)
(***************************************************************************)
EXTENDS Integers, Sequences, FiniteSets, TLC

\* ---------------------------------------------------------------------
\* Bounds of the model
\* ---------------------------------------------------------------------
MaxTicks == 3          \* gameLoop runs explored per behaviour
TimeStep == 30000      \* granularity (ms) of the wall clock
MaxTime == 90000       \* the wall clock is explored up to this value (ms)
FrameTime == 16        \* elapsed times handed to displayTimer: multiples (ms)
ProbeSpan == 18        \* isColliding is probed for offsets up to this value
DrawGrain == 12        \* Math.random() values probed: k and k-1, k a multiple
MaxSpawns == 3         \* createGameObjects runs explored per behaviour

\* ---------------------------------------------------------------------
\* Program constants
\* ---------------------------------------------------------------------
One == 200             \* the literal 1 of "1 - size" (world half-width)
size == 20             \* const size = 0.1
padding == size        \* const padding = size
step == 2              \* the literal 0.01 of updatePlayer
NumRed == 3            \* for (let i = 0; i < 3; i++)
NumObjects == 10       \* for (let i = 3; i < 10; i++)
ScoreInc == 10         \* this.score += 10

\* this.colors (index 0 of the code is index 1 here)
colors ==
    << <<1, 0, 0, 1>>, <<0, 1, 0, 1>>, <<0, 0, 1, 1>>,
       <<1, 1, 0, 1>>, <<1, 0, 1, 1>>, <<0, 1, 1, 1>> >>

Red == <<1, 0, 0, 1>>
Green == <<0, 1, 0, 1>>

\* the key identifiers delivered by key events (the four updatePlayer reads)
KeyIds == {"ArrowUp", "ArrowDown", "ArrowLeft", "ArrowRight"}

VARIABLES
    gameObjects,   \* model.gameObjects: sequence of triangles
    player,        \* model.player: identity (id) of the referenced triangle
    gameState,     \* model.gameState
    score,         \* model.score
    keys,          \* model.keys
    nextId,        \* identity given to the next object created by `new`
    pc,            \* "constructed" (main built the MVC objects) or "started"
    startTime,     \* controller.startTime
    gameDuration,  \* controller.gameDuration
    now,           \* Date.now()
    pending,       \* number of requestAnimationFrame callbacks not yet run
    alerts,        \* the messages endGame has shown, in order
    ticks,         \* number of gameLoop runs so far
    spawned,       \* history: gameObjects as the last createGameObjects left it
    lastTick,      \* history: what the last gameLoop run did
    probe          \* the last call of a pure function: kind, arg, out

vars == <<gameObjects, player, gameState, score, keys, nextId, pc, startTime,
          gameDuration, now, pending, alerts, ticks, spawned, lastTick,
          probe>>

\* ---------------------------------------------------------------------
\* Math.random()
\* ---------------------------------------------------------------------
\* Math.random() = k / RandDen for k in 0 .. RandDen-1
RandDen == 2 * One - 2 * padding

\* Math.random() * (2 - 2 * padding) - (1 - padding)
RandomPos(k) == k - (One - padding)

\* Math.floor(Math.random() * this.colors.length)          (0-based)
RandomColorIndex(k) == (k * Len(colors)) \div RandDen

\* Variant of RedrawColorIndex: the re-draw samples the whole palette
RedrawColorIndex_WholePalette(k) == (k * Len(colors)) \div RandDen

\* Math.floor(Math.random() * (this.colors.length - 1)) + 1   (0-based)
RedrawColorIndex(k) == ((k * (Len(colors) - 1)) \div RandDen) + 1

\* color[0] === 1 && color[1] === 0 && color[2] === 0
isRed(color) == color[1] = 1 /\ color[2] = 0 /\ color[3] = 0

\* new Triangle(x, y, size, color)
Triangle(id, x, y, sz, color) ==
    [id |-> id, x |-> x, y |-> y, size |-> sz, color |-> color]

\* ---------------------------------------------------------------------
\* GameModel.createGameObjects
\* ---------------------------------------------------------------------
Drop(rnd, n) == SubSeq(rnd, n + 1, Len(rnd))

RECURSIVE SpawnRed(_, _, _, _)
\* for (let i = 0; i < 3; i++): two draws for the position, colour red
SpawnRed(objs, rnd, i, firstId) ==
    IF i < NumRed
    THEN SpawnRed(Append(objs, Triangle(firstId + i, RandomPos(rnd[1]),
                                        RandomPos(rnd[2]), size, Red)),
                  Drop(rnd, 2), i + 1, firstId)
    ELSE [objs |-> objs, rnd |-> rnd]

RECURSIVE Redraw(_, _)
\* while (color is red) color = this.colors[floor(random * (length - 1)) + 1]
Redraw(color, rnd) ==
    IF isRed(color)
    THEN Redraw(colors[RedrawColorIndex(rnd[1]) + 1], Drop(rnd, 1))
    ELSE [color |-> color, rnd |-> rnd]

RECURSIVE SpawnRest(_, _, _, _)
\* for (let i = 3; i < 10; i++): position, colour, red rejected
SpawnRest(objs, rnd, i, firstId) ==
    IF i < NumObjects
    THEN LET x == RandomPos(rnd[1])
             y == RandomPos(rnd[2])
             c == Redraw(colors[RandomColorIndex(rnd[3]) + 1], Drop(rnd, 3))
         IN  SpawnRest(Append(objs, Triangle(firstId + i, x, y, size, c.color)),
                       c.rnd, i + 1, firstId)
    ELSE [objs |-> objs, rnd |-> rnd]

\* Variant of RecolorPlayer: the player slot keeps the colour it was drawn with
RecolorPlayer_Skipped(objs) == objs

\* this.player = this.gameObjects[0]; this.player.color = [0, 1, 0, 1]
RecolorPlayer(objs) == [objs EXCEPT ![1].color = Green]

\* The collection createGameObjects leaves in this.gameObjects; this.player
\* refers to its first element.
createGameObjects(rnd, firstId) ==
    LET reds == SpawnRed(<<>>, rnd, 0, firstId)
        rest == SpawnRest(reds.objs, reds.rnd, NumRed, firstId)
    IN  RecolorPlayer(rest.objs)

\* ---------------------------------------------------------------------
\* GameModel.updatePlayer
\* ---------------------------------------------------------------------
IndexOfId(objs, id) ==
    IF \E i \in 1..Len(objs) : objs[i].id = id
    THEN CHOOSE i \in 1..Len(objs) :
             objs[i].id = id /\ \A k \in 1..(i - 1) : objs[k].id # id
    ELSE 0

\* Variant of MovePlayer: the ArrowUp test is || instead of &&
MovePlayer_Drift(p, ks) ==
    LET y1 == IF ks["ArrowUp"] \/ p.y < One - p.size THEN p.y + 2 ELSE p.y
        y2 == IF ks["ArrowDown"] /\ y1 > -One + p.size THEN y1 - 2 ELSE y1
        x1 == IF ks["ArrowLeft"] /\ p.x > -One + p.size THEN p.x - 2 ELSE p.x
        x2 == IF ks["ArrowRight"] /\ x1 < One - p.size THEN x1 + 2 ELSE x1
    IN  [p EXCEPT !.x = x2, !.y = y2]

\* The four statements of updatePlayer, in order, on the player's (x, y)
MovePlayer(p, ks) ==
    LET y1 == IF ks["ArrowUp"] /\ p.y < One - p.size THEN p.y + step ELSE p.y
        y2 == IF ks["ArrowDown"] /\ y1 > -One + p.size THEN y1 - step ELSE y1
        x1 == IF ks["ArrowLeft"] /\ p.x > -One + p.size THEN p.x - step ELSE p.x
        x2 == IF ks["ArrowRight"] /\ x1 < One - p.size THEN x1 + step ELSE x1
    IN  [p EXCEPT !.x = x2, !.y = y2]

updatePlayer(objs, pl, ks) ==
    LET i == IndexOfId(objs, pl)
    IN  [objs EXCEPT ![i] = MovePlayer(objs[i], ks)]

\* ---------------------------------------------------------------------
\* GameModel.isColliding, handleCollision, checkCollisions, checkGameOver
\* ---------------------------------------------------------------------
\* Variant of isColliding: dy is not squared
isColliding_DyNotSquared(t1, t2) ==
    LET dx == t1.x - t2.x
        dy == t1.y - t2.y
    IN  4 * (dx * dx + dy) < 3 * t1.size * t1.size

\* sqrt(dx*dx + dy*dy) < sqrt(3)/2 * triangle1.size, compared on the squares
isColliding(t1, t2) ==
    LET dx == t1.x - t2.x
        dy == t1.y - t2.y
    IN  4 * (dx * dx + dy * dy) < 3 * t1.size * t1.size

\* this.gameObjects.splice(index, 1)
Splice(objs, index) ==
    SubSeq(objs, 1, index - 1) \o SubSeq(objs, index + 1, Len(objs))

\* Variant of handleCollision: the score is raised before the red test
handleCollision_ScoreFirst(m, t1, t2, pl) ==
    IF t1.id = pl \/ t2.id = pl
    THEN LET other == IF t1.id = pl THEN t2 ELSE t1
             index == IndexOfId(m.objs, other.id)
         IN  IF isRed(other.color)
             THEN [m EXCEPT !.score = @ + 10,
                            !.state = "lost", !.log = Append(@, "lost")]
             ELSE [m EXCEPT !.score = @ + 10,
                            !.objs = IF index > 0
                                     THEN SubSeq(@, 1, index - 1)
                                          \o SubSeq(@, index + 1, Len(@))
                                     ELSE @]
    ELSE m

\* Variant of handleCollision: the first triangle of the pair is spliced out
handleCollision_RemoveFirst(m, t1, t2, pl) ==
    IF t1.id = pl \/ t2.id = pl
    THEN LET other == IF t1.id = pl THEN t2 ELSE t1
             index == IndexOfId(m.objs, t1.id)
         IN  IF isRed(other.color)
             THEN [m EXCEPT !.state = "lost", !.log = Append(@, "lost")]
             ELSE [m EXCEPT !.score = @ + 10,
                            !.objs = IF index > 0
                                     THEN SubSeq(@, 1, index - 1)
                                          \o SubSeq(@, index + 1, Len(@))
                                     ELSE @]
    ELSE m

\* Variant of handleCollision: no test that the pair involves the player
handleCollision_AnyPair(m, t1, t2, pl) ==
    LET other == IF t1.id = pl THEN t2 ELSE t1
        index == IndexOfId(m.objs, other.id)
    IN  IF isRed(other.color)
        THEN [m EXCEPT !.state = "lost", !.log = Append(@, "lost")]
        ELSE [m EXCEPT !.score = @ + 10,
                       !.objs = IF index > 0
                                THEN SubSeq(@, 1, index - 1)
                                     \o SubSeq(@, index + 1, Len(@))
                                ELSE @]

\* Variant of handleCollision: the collectible is scored but stays in
\* gameObjects
handleCollision_KeepEntity(m, t1, t2, pl) ==
    IF t1.id = pl \/ t2.id = pl
    THEN LET other == IF t1.id = pl THEN t2 ELSE t1
         IN  IF isRed(other.color)
             THEN [m EXCEPT !.state = "lost", !.log = Append(@, "lost")]
             ELSE [m EXCEPT !.score = @ + 10]
    ELSE m

\* m is the model while a handler runs: objs, state, score, and the
\* history log (every value assigned to gameState) and cmp (the pairs
\* handed to isColliding).
handleCollision(m, t1, t2, pl) ==
    IF t1.id = pl \/ t2.id = pl
    THEN LET other == IF t1.id = pl THEN t2 ELSE t1
         IN  IF isRed(other.color)
             THEN [m EXCEPT !.state = "lost", !.log = Append(@, "lost")]
             ELSE LET index == IndexOfId(m.objs, other.id)
                  IN  [m EXCEPT !.score = @ + ScoreInc,
                                !.objs = IF index > 0 THEN Splice(@, index)
                                                      ELSE @]
    ELSE m

RECURSIVE CollisionLoop(_, _, _, _)
\* The two nested for loops; both bounds re-read this.gameObjects.length.
\* i and j are the code's indices plus one.
CollisionLoop(m, i, j, pl) ==
    IF i > Len(m.objs) THEN m
    ELSE IF j > Len(m.objs) THEN CollisionLoop(m, i + 1, i + 2, pl)
    ELSE LET t1 == m.objs[i]
             t2 == m.objs[j]
             m1 == [m EXCEPT !.cmp = Append(@, <<t1.id, t2.id>>)]
             m2 == IF isColliding(t1, t2)
                   THEN handleCollision(m1, t1, t2, pl)
                   ELSE m1
         IN  CollisionLoop(m2, i, j + 1, pl)

checkCollisions(m, pl) == CollisionLoop(m, 1, 2, pl)

nonRedTriangles(objs) == SelectSeq(objs, LAMBDA o : ~isRed(o.color))

\* Variant of checkGameOver: the player is not counted among the non-red
checkGameOver_NoPlayer(m) ==
    IF Len(SelectSeq(m.objs, LAMBDA o : ~isRed(o.color))) = 0
    THEN [m EXCEPT !.state = "won", !.log = Append(@, "won")]
    ELSE m

checkGameOver(m) ==
    IF Len(nonRedTriangles(m.objs)) = 1
    THEN [m EXCEPT !.state = "won", !.log = Append(@, "won")]
    ELSE m

\* GameModel.update (obj.update() is empty for every object)
update(m, pl, ks) ==
    LET moved == updatePlayer(m.objs, pl, ks)
        m1 == [m EXCEPT !.objs = moved, !.pre = moved]
    IN  checkGameOver(checkCollisions(m1, pl))

\* ---------------------------------------------------------------------
\* GameController.gameLoop and endGame
\* ---------------------------------------------------------------------
Max(a, b) == IF a >= b THEN a ELSE b

\* Variant of timeoutCheck: the test is < instead of <=
timeoutCheck_Strict(m, remainingTime) ==
    IF remainingTime < 0
    THEN [m EXCEPT !.state = "lost", !.log = Append(@, "lost")]
    ELSE m

\* if (remainingTime <= 0) this.model.gameState = 'lost'
timeoutCheck(m, remainingTime) ==
    IF remainingTime <= 0
    THEN [m EXCEPT !.state = "lost", !.log = Append(@, "lost")]
    ELSE m

\* Variant of schedulesNext: the loop stops on a loss only
schedulesNext_UnlessLost(state) == state # "lost"

\* if (this.model.gameState === 'playing') requestAnimationFrame(...)
schedulesNext(state) == state = "playing"

\* The alert endGame shows
endGame(state) ==
    IF state = "won" THEN "Congratulations! You won!"
                     ELSE "Game over! You lost."

\* One run of gameLoop on the model (objs, st, sc) at wall-clock time t
gameLoop(objs, st, sc, pl, ks, t, tstart, dur) ==
    LET elapsedTime == t - tstart
        remainingTime == Max(0, dur - elapsedTime)
        m0 == [objs |-> objs, state |-> st, score |-> sc,
               log |-> <<st>>, cmp |-> <<>>, pre |-> objs]
        m1 == update(timeoutCheck(m0, remainingTime), pl, ks)
    IN  [m |-> m1, startState |-> st, remaining |-> remainingTime,
         scheduled |-> schedulesNext(m1.state)]

\* What a run of gameLoop with result r writes; wasPending is the number of
\* animation-frame callbacks this run consumed (0 when called by startGame).
LoopEffects(r, wasPending) ==
    /\ gameObjects' = r.m.objs
    /\ gameState' = r.m.state
    /\ score' = r.m.score
    /\ pending' = pending - wasPending + (IF r.scheduled THEN 1 ELSE 0)
    /\ alerts' = IF r.scheduled THEN alerts
                                ELSE Append(alerts, endGame(r.m.state))
    /\ ticks' = ticks + 1
    /\ lastTick' = [startState |-> r.startState, remaining |-> r.remaining,
                    pre |-> r.m.pre, log |-> r.m.log, cmp |-> r.m.cmp,
                    scheduled |-> r.scheduled]

\* ---------------------------------------------------------------------
\* Random streams explored (values of successive Math.random() calls)
\* ---------------------------------------------------------------------
At(x, y) == <<x + (One - padding), y + (One - padding)>>
Pick(c) == <<(c * RandDen) \div Len(colors)>>
Again(c) == <<((c - 1) * RandDen) \div (Len(colors) - 1)>>

\* every collectible on top of the player, one hazard a step to the right
StreamStacked ==
    At(0, 0) \o At(18, 0) \o At(-100, -100)
    \o At(0, 0) \o Pick(0) \o Again(2)
    \o At(0, 0) \o Pick(1)
    \o At(0, 0) \o Pick(2)
    \o At(0, 0) \o Pick(3)
    \o At(0, 0) \o Pick(4)
    \o At(0, 0) \o Pick(5)
    \o At(0, 0) \o Pick(0) \o Again(5)

\* player half a step from two walls, extreme draws for the hazards
StreamEdge ==
    At(179, -179) \o <<0, 0>> \o <<RandDen - 1, RandDen - 1>>
    \o At(-179, 100) \o Pick(2)
    \o At(100, 100) \o Pick(0) \o Again(1)
    \o At(-100, 50) \o Pick(5)
    \o At(50, -100) \o Pick(3)
    \o At(0, 0) \o Pick(0) \o Again(3)
    \o At(-50, -50) \o Pick(4)
    \o At(120, -20) \o Pick(1)

\* player spawned on two hazards and two collectibles
StreamMixed ==
    At(0, 0) \o At(10, 0) \o At(0, -10)
    \o At(0, 10) \o Pick(3)
    \o At(-10, 0) \o Pick(0) \o Again(4)
    \o At(100, 0) \o Pick(2)
    \o At(-100, 0) \o Pick(1)
    \o At(0, 100) \o Pick(5)
    \o At(0, -100) \o Pick(4)
    \o At(100, 100) \o Pick(2)

\* nothing touches the player at spawn; a hazard and collectibles one step
\* away from it; far from it a collectible overlaps a hazard and another
\* collectible
StreamApart ==
    At(0, 0) \o At(0, 18) \o At(60, 60)
    \o At(18, 0) \o Pick(4)
    \o At(-60, 50) \o Pick(2)
    \o At(0, -18) \o Pick(0) \o Again(2)
    \o At(-18, 0) \o Pick(1)
    \o At(60, 50) \o Pick(3)
    \o At(-60, 60) \o Pick(5)
    \o At(-60, -60) \o Pick(0) \o Again(1)

\* draws that follow the ones a spawn consumes
StreamTail == <<RandDen - 1, RandDen - 1, RandDen - 1, RandDen - 1,
                RandDen - 1, RandDen - 1, RandDen - 1, RandDen - 1>>

Streams == {StreamStacked \o StreamTail, StreamEdge \o StreamTail,
            StreamMixed \o StreamTail, StreamApart \o StreamTail}

\* ---------------------------------------------------------------------
\* The program
\* ---------------------------------------------------------------------
NoProbe == [kind |-> "none", arg |-> <<>>, out |-> <<>>]

NoTick ==
    [startState |-> "playing", remaining |-> 0, pre |-> <<>>,
     log |-> <<"playing">>, cmp |-> <<>>, scheduled |-> FALSE]

\* main(): new GameModel(...), new GameView(gl), new GameController(...)
Init ==
    \E rnd \in Streams :
        /\ gameObjects = createGameObjects(rnd, 0)
        /\ spawned = createGameObjects(rnd, 0)
        /\ player = 0
        /\ nextId = NumObjects
        /\ gameState = "playing"
        /\ score = 0
        /\ keys = [k \in KeyIds |-> FALSE]
        /\ pc = "constructed"
        /\ startTime = 0
        /\ gameDuration = 0
        /\ now = 0
        /\ pending = 0
        /\ alerts = <<>>
        /\ ticks = 0
        /\ lastTick = NoTick
        /\ probe = NoProbe

\* GameController.startGame: initializeGame, then the first gameLoop run
startGame ==
    /\ pc = "constructed"
    /\ \E rnd \in Streams :
         LET objs == createGameObjects(rnd, nextId)
             r == gameLoop(objs, "playing", 0, objs[1].id, keys,
                           now, now, 1 * 60 * 1000)
         IN  /\ spawned' = objs
             /\ player' = objs[1].id
             /\ nextId' = nextId + Len(objs)
             /\ startTime' = now
             /\ gameDuration' = 1 * 60 * 1000
             /\ LoopEffects(r, 0)
    /\ pc' = "started"
    /\ UNCHANGED <<keys, now, probe>>

\* The animation-frame callback () => this.gameLoop()
gameLoopTick ==
    /\ pending > 0
    /\ ticks < MaxTicks
    /\ LoopEffects(gameLoop(gameObjects, gameState, score, player, keys,
                            now, startTime, gameDuration), 1)
    /\ UNCHANGED <<player, keys, nextId, pc, startTime, gameDuration, now,
                   spawned, probe>>

\* GameController.handleKeyDown -> GameModel.handleKeyDown
handleKeyDown(key) ==
    /\ keys' = [keys EXCEPT ![key] = TRUE]
    /\ UNCHANGED <<gameObjects, player, gameState, score, nextId, pc,
                   startTime, gameDuration, now, pending, alerts, ticks,
                   spawned, lastTick, probe>>

\* GameController.handleKeyUp -> GameModel.handleKeyUp
handleKeyUp(key) ==
    /\ keys' = [keys EXCEPT ![key] = FALSE]
    /\ UNCHANGED <<gameObjects, player, gameState, score, nextId, pc,
                   startTime, gameDuration, now, pending, alerts, ticks,
                   spawned, lastTick, probe>>

\* The wall clock read by Date.now() moves on
advanceClock ==
    /\ now + TimeStep <= MaxTime
    /\ now' = now + TimeStep
    /\ UNCHANGED <<gameObjects, player, gameState, score, keys, nextId, pc,
                   startTime, gameDuration, pending, alerts, ticks, spawned,
                   lastTick, probe>>

Next ==
    \/ startGame
    \/ gameLoopTick
    \/ \E key \in KeyIds : handleKeyDown(key)
    \/ \E key \in KeyIds : handleKeyUp(key)
    \/ advanceClock

Spec == Init /\ [][Next]_vars

\* ---------------------------------------------------------------------
\* Vocabulary of the properties
\* ---------------------------------------------------------------------
Ids(objs) == {objs[i].id : i \in 1..Len(objs)}

\* a COLLECTIBLE: neither red nor the player
isCollectible(o) == ~isRed(o.color) /\ o.id # player

\* a HAZARD: red
isHazard(o) == isRed(o.color)

Collectibles(objs) == {i \in 1..Len(objs) : isCollectible(objs[i])}
Hazards(objs) == {i \in 1..Len(objs) : isHazard(objs[i])}

\* the entities of objs the player is within collision distance of
Touching(objs) ==
    {i \in 1..Len(objs) :
        /\ objs[i].id # player
        /\ isColliding(objs[IndexOfId(objs, player)], objs[i])}

\* at least one gameLoop run has completed (startGame makes the first)
TickRan == pc = "started"

InBounds(v) == -One + size <= v /\ v <= One - size

\* C1 (as claimed): among the values gameState takes during a gameLoop run
\* (the value at its start, then every assignment in order), nothing but
\* 'lost' follows 'lost' and nothing but 'won' follows 'won'.
C1_TerminalMonotonic ==
    \A a, b \in 1..Len(lastTick.log) :
        a < b =>
            /\ lastTick.log[a] = "lost" => lastTick.log[b] = "lost"
            /\ lastTick.log[a] = "won" => lastTick.log[b] = "won"

\* C2 (as claimed): a tick whose collision pass starts with the player
\* touching a hazard and a collectible ends LOST.
C2_HazardPrecedence ==
    (/\ TickRan
     /\ Touching(lastTick.pre) \cap Hazards(lastTick.pre) # {}
     /\ Touching(lastTick.pre) \cap Collectibles(lastTick.pre) # {})
    => gameState = "lost"

\* C3 (as claimed): a tick that starts ACTIVE with no time remaining ends
\* LOST, schedules nothing, and endGame reports the loss.
C3_TimeoutIsLoss ==
    (TickRan /\ lastTick.startState = "playing" /\ lastTick.remaining = 0)
    => /\ gameState = "lost"
       /\ pending = 0
       /\ alerts = <<endGame("lost")>>

\* C4 (as claimed): the player's x and y stay within [-1+size, 1-size].
C4_PlayerInBounds ==
    LET p == gameObjects[IndexOfId(gameObjects, player)]
    IN  InBounds(p.x) /\ InBounds(p.y)

\* C5 (as claimed): every collectible within collision distance of the
\* player when checkCollisions starts is gone after the tick, and every pair
\* of entities that stay live through the pass is compared exactly once.
C5_RemovalSafe ==
    TickRan =>
        /\ \A i \in Touching(lastTick.pre) \cap Collectibles(lastTick.pre) :
               lastTick.pre[i].id \notin Ids(gameObjects)
        /\ \A a, b \in Ids(gameObjects) :
               a # b =>
                   Cardinality({n \in 1..Len(lastTick.cmp) :
                                   \/ lastTick.cmp[n] = <<a, b>>
                                   \/ lastTick.cmp[n] = <<b, a>>}) = 1

\* C6: no step lowers the score; a tick raises it by exactly 10 per entity
\* it removed from gameObjects and adds no entity; any other step leaves the
\* score and gameObjects alone.
C6_ScoreTiedToRemovals ==
    [][/\ score' >= score
       /\ IF ticks' # ticks
          THEN /\ score' - (IF pc = "started" THEN score ELSE 0)
                    = 10 * (Len(lastTick'.pre) - Len(gameObjects'))
               /\ Ids(gameObjects') \subseteq Ids(lastTick'.pre)
          ELSE score' = score /\ gameObjects' = gameObjects]_vars

\* C6 witness: a tick has removed two entities at once and scored 20
C6_Witness ==
    /\ TickRan
    /\ score >= 20
    /\ Len(lastTick.pre) - Len(gameObjects) >= 2

\* C7: WON only when no collectible is left; a tick that starts ACTIVE before
\* the timeout, touches no hazard and leaves no collectible ends WON; and no
\* tick is pending when no collectible is left.
C7_WinRule ==
    /\ gameState = "won" =>
           /\ Collectibles(gameObjects) = {}
           /\ Len(nonRedTriangles(gameObjects)) = 1
    /\ (/\ TickRan
        /\ lastTick.startState = "playing"
        /\ lastTick.remaining > 0
        /\ Touching(lastTick.pre) \cap Hazards(lastTick.pre) = {}
        /\ Collectibles(gameObjects) = {})
       => gameState = "won"
    /\ (TickRan /\ Collectibles(gameObjects) = {}) => pending = 0

\* C7 witness: the last collectible was taken before the timeout, no hazard
\* touched
C7_Witness ==
    /\ TickRan
    /\ lastTick.startState = "playing"
    /\ lastTick.remaining > 0
    /\ Touching(lastTick.pre) \cap Hazards(lastTick.pre) = {}
    /\ Collectibles(lastTick.pre) # {}
    /\ Collectibles(gameObjects) = {}
    /\ gameState = "won"

\* C8: what createGameObjects leaves: 10 entities, exactly one of them the
\* player and it is opaque green, 2 or 3 red entities, every position within
\* [-1+size, 1-size].
C8_SpawnPostcondition ==
    /\ Len(spawned) = 10
    /\ Cardinality({i \in 1..Len(spawned) : spawned[i].id = player}) = 1
    /\ \A i \in 1..Len(spawned) :
           /\ spawned[i].id = player => spawned[i].color = <<0, 1, 0, 1>>
           /\ InBounds(spawned[i].x) /\ InBounds(spawned[i].y)
    /\ Cardinality(Hazards(spawned)) <= 3
    /\ Cardinality(Hazards(spawned)) >= 2

\* C8 witness: the collection spawned by initializeGame (second generation
\* of objects), holding a first draw at each end of the range
C8_Witness ==
    /\ TickRan
    /\ spawned[1].id = NumObjects
    /\ \E i, j \in 1..Len(spawned) :
           spawned[i].x = -One + size /\ spawned[j].x = One - size - 1

\* C9 (as claimed): createGameObjects leaves at least 3 red entities.
C9_HazardQuota == Cardinality(Hazards(spawned)) >= 3

\* C10: once started, a tick is pending exactly when gameState is 'playing'
\* (never more than one), endGame has been called exactly once, with the
\* final state, exactly when it is not, and no tick runs after endGame.
C10_LoopScheduling ==
    /\ [](TickRan =>
            /\ pending = (IF gameState = "playing" THEN 1 ELSE 0)
            /\ lastTick.scheduled <=> gameState = "playing"
            /\ gameState \in {"playing", "won", "lost"}
            /\ alerts = (IF gameState = "playing" THEN <<>>
                         ELSE IF gameState = "won"
                              THEN <<"Congratulations! You won!">>
                              ELSE <<"Game over! You lost.">>))
    /\ [][alerts # <<>> => ticks' = ticks /\ alerts' = alerts]_vars

\* C10 witness: the loop rescheduled itself, then stopped and reported
C10_Witness ==
    /\ ticks >= 2
    /\ pending = 0
    /\ Len(alerts) = 1

\* C12: a tick removes only non-red, non-player entities that were within
\* collision distance of the player when the collision pass started; it
\* keeps every other entity as it was and in order, moves none but the
\* player, and so keeps the hazards and their positions; no other step
\* touches gameObjects.
C12_OnlyCollectiblesRemoved ==
    [][IF ticks' # ticks
       THEN LET pre == lastTick'.pre
                p == pre[IndexOfId(pre, player')]
            IN  /\ \A i \in 1..Len(pre) :
                       pre[i].id \notin Ids(gameObjects') =>
                           /\ ~isRed(pre[i].color)
                           /\ pre[i].id # player'
                           /\ isColliding(p, pre[i])
                /\ gameObjects' =
                       SelectSeq(pre, LAMBDA o : o.id \in Ids(gameObjects'))
                /\ {gameObjects'[i] : i \in Hazards(gameObjects')}
                       = {pre[i] : i \in Hazards(pre)}
                /\ pc = "started" =>
                       /\ Len(pre) = Len(gameObjects)
                       /\ \A i \in 1..Len(pre) :
                              gameObjects[i].id # player =>
                                  pre[i] = gameObjects[i]
       ELSE gameObjects' = gameObjects]_vars

\* C12 witness: a tick removed a collectible while, away from the player,
\* a hazard and a collectible overlapped and both stayed
C12_Witness ==
    /\ TickRan
    /\ Len(gameObjects) < Len(lastTick.pre)
    /\ \E i \in Hazards(gameObjects) :
           \E j \in Collectibles(gameObjects) \ Touching(gameObjects) :
               /\ isColliding(gameObjects[i], gameObjects[j])
               /\ i \notin Touching(lastTick.pre)

\* no arrow key is held
NoArrowKey ==
    /\ ~keys["ArrowUp"] /\ ~keys["ArrowDown"]
    /\ ~keys["ArrowLeft"] /\ ~keys["ArrowRight"]

\* C15: an animation-frame tick before the timeout that starts ACTIVE with
\* no arrow key held, the player touching nothing and a collectible live
\* leaves gameState ACTIVE and the score and gameObjects (count, order,
\* positions) unchanged.
C15_IdleTickNoOp ==
    [][(/\ ticks' # ticks
        /\ pc = "started"
        /\ gameState = "playing"
        /\ lastTick'.remaining > 0
        /\ NoArrowKey
        /\ Touching(gameObjects) = {}
        /\ Collectibles(gameObjects) # {})
       => /\ gameState' = "playing"
          /\ score' = score
          /\ gameObjects' = gameObjects]_vars

\* C15 witness: after an idle animation-frame tick
C15_Witness ==
    /\ TickRan
    /\ ticks >= 2
    /\ NoArrowKey
    /\ lastTick.startState = "playing"
    /\ lastTick.remaining > 0
    /\ lastTick.pre = gameObjects
    /\ Touching(gameObjects) = {}
    /\ Collectibles(gameObjects) # {}
    /\ gameState = "playing"

\* the n-th comparison of the last collision pass was the player against a
\* hazard within collision distance (handleCollision set 'lost' there)
HazardTouchAt(n) ==
    LET pre == lastTick.pre
        pair == lastTick.cmp[n]
    IN  /\ player \in {pair[1], pair[2]}
        /\ \E i \in Touching(pre) \cap Hazards(pre) :
               pre[i].id \in {pair[1], pair[2]}

\* the n-th comparison of the last collision pass was the player against an
\* entity that the pass removed (handleCollision scored and spliced there)
RemovedAt(n) ==
    LET pair == lastTick.cmp[n]
    IN  /\ player \in {pair[1], pair[2]}
        /\ \E id \in Ids(lastTick.pre) \ Ids(gameObjects) :
               id \in {pair[1], pair[2]}

\* C16 (as claimed): after a player-hazard collision in a collision pass,
\* the rest of the pass removes no entity (and so scores nothing).
C16_HazardShortCircuits ==
    TickRan =>
        \A n1, n2 \in 1..Len(lastTick.cmp) :
            n1 < n2 => ~(HazardTouchAt(n1) /\ RemovedAt(n2))

\* C20: score + 10 * (number of live collectibles) = 70 in every state; so
\* the score is 70 when gameState is 'won' and never above 70.
C20_ScoreConservation ==
    /\ score + 10 * Cardinality(Collectibles(gameObjects)) = 70
    /\ gameState = "won" => score = 70
    /\ score <= 70

\* C20 witness: a round won with all 7 collectibles scored
C20_Witness ==
    /\ TickRan
    /\ gameState = "won"
    /\ score = 70
    /\ Collectibles(gameObjects) = {}

\* ---------------------------------------------------------------------
\* GameView.displayTimer
\* ---------------------------------------------------------------------
Digit(d) == <<"0", "1", "2", "3", "4", "5", "6", "7", "8", "9">>[d + 1]

RECURSIVE Decimal(_)
\* the decimal numeral of a natural number, as a sequence of characters
Decimal(n) ==
    IF n < 10 THEN <<Digit(n)>>
    ELSE Append(Decimal(n \div 10), Digit(n % 10))

\* (num / den).toFixed(0) for num >= 0: the nearest integer, the larger one
\* of two equally near
toFixed0(num, den) == (2 * num + den) \div (2 * den)

\* The textContent displayTimer writes, as a sequence of characters
displayTimer(remainingTime) ==
    LET minutes == remainingTime \div 60000
        seconds == toFixed0(remainingTime % 60000, 1000)
    IN  <<"T", "i", "m", "e", ":", " ">>
        \o Decimal(minutes) \o <<":">>
        \o (IF seconds < 10 THEN <<"0">> ELSE <<>>) \o Decimal(seconds)

\* ---------------------------------------------------------------------
\* Pure functions applied to bounded inputs (one application per behaviour)
\* ---------------------------------------------------------------------
ProbeOrigins == {-One + size, 0, One - size - 1}

DrawSet ==
    {k \in 0..(RandDen - 1) : k % DrawGrain = 0 \/ k % DrawGrain = DrawGrain - 1}

FrozenGame ==
    UNCHANGED <<gameObjects, player, gameState, score, keys, nextId, pc,
                startTime, gameDuration, now, pending, alerts, ticks,
                spawned, lastTick>>

\* isColliding on two triangles of the world, in both argument orders
probeCollide ==
    /\ probe.kind = "none"
    /\ \E ax, ay \in ProbeOrigins :
         \E dx, dy \in (-ProbeSpan)..ProbeSpan :
           LET a == Triangle(0, ax, ay, size, Green)
               b == Triangle(1, ax + dx, ay + dy, size, Red)
           IN  /\ -One + size <= b.x /\ b.x < One - size
               /\ -One + size <= b.y /\ b.y < One - size
               /\ probe' = [kind |-> "collide", arg |-> <<a, b>>,
                            out |-> <<isColliding(a, b), isColliding(b, a)>>]
    /\ FrozenGame

\* the colour draw of createGameObjects with its rejection loop, on a first
\* draw k1 followed by the draws k2 and the largest value below 1
probeColour ==
    /\ probe.kind = "none"
    /\ \E k1, k2 \in DrawSet :
         LET r == Redraw(colors[RandomColorIndex(k1) + 1],
                         <<k2, RandDen - 1>>)
         IN  probe' = [kind |-> "colour", arg |-> <<k1, k2>>,
                       out |-> [color |-> r.color,
                                redraws |-> 2 - Len(r.rnd)]]
    /\ FrozenGame

\* displayTimer on the remaining time gameLoop computes
probeTimer ==
    /\ probe.kind = "none"
    /\ \E e \in 0..(MaxTime \div FrameTime) :
         LET remainingTime == Max(0, 1 * 60 * 1000 - e * FrameTime)
         IN  probe' = [kind |-> "timer", arg |-> remainingTime,
                       out |-> displayTimer(remainingTime)]
    /\ FrozenGame

NextPure == probeCollide \/ probeColour \/ probeTimer

SpecPure == Init /\ [][NextPure]_vars

\* C14: isColliding gives the same answer for (a, b) and (b, a), and it is
\* true exactly when the squared centre distance is strictly below
\* 3/4 * size^2.
C14_CollisionSymmetry ==
    probe.kind = "collide" =>
        LET a == probe.arg[1]
            b == probe.arg[2]
            d2 == (a.x - b.x) * (a.x - b.x) + (a.y - b.y) * (a.y - b.y)
        IN  /\ probe.out[1] = probe.out[2]
            /\ probe.out[1] <=> 4 * d2 < 3 * 20 * 20

\* C14 witness: isColliding answered true for two distinct centres whose
\* vertical offset is negative
C14_Witness ==
    /\ probe.kind = "collide"
    /\ probe.out[1]
    /\ probe.arg[1].y < probe.arg[2].y
    /\ probe.arg[1].x # probe.arg[2].x

\* C18: the rejection loop re-draws at most once, exactly when the first
\* draw was red, the re-draw is one of the palette entries 1..5, the result
\* is never red; and createGameObjects returns with no red entity at the
\* indices 3..9.
C18_ColourSampling ==
    /\ probe.kind = "colour" =>
           /\ ~isRed(probe.out.color)
           /\ probe.out.redraws <= 1
           /\ probe.out.redraws = 1 <=> probe.arg[1] * 6 < RandDen
           /\ probe.out.redraws = 1 =>
                  \E i \in 2..6 : probe.out.color = colors[i]
    /\ Len(spawned) = 10
    /\ \A i \in 4..10 : ~isRed(spawned[i].color)

\* C18 witness: a red first draw was re-drawn
C18_Witness ==
    /\ probe.kind = "colour"
    /\ probe.out.redraws = 1
    /\ probe.arg[2] = 0

\* C19 (as claimed): the text is 'Time: m:ss' with ss two digits, 00..59.
C19_TimerFormat ==
    probe.kind = "timer" =>
        \E mm \in 0..1 : \E ss \in 0..59 :
            probe.out = <<"T", "i", "m", "e", ":", " ">>
                        \o Decimal(mm) \o <<":">>
                        \o <<Digit(ss \div 10), Digit(ss % 10)>>

\* ---------------------------------------------------------------------
\* The loop under animation-frame cadence: every callback runs strictly
\* later than the run that scheduled it, and every scheduled callback runs
\* ---------------------------------------------------------------------
animationFrame ==
    /\ pending > 0
    /\ now + TimeStep <= MaxTime
    /\ now' = now + TimeStep
    /\ LoopEffects(gameLoop(gameObjects, gameState, score, player, keys,
                            now + TimeStep, startTime, gameDuration), 1)
    /\ UNCHANGED <<player, keys, nextId, pc, startTime, gameDuration,
                   spawned, probe>>

NextLive ==
    \/ startGame
    \/ animationFrame
    \/ \E key \in KeyIds : handleKeyDown(key)
    \/ \E key \in KeyIds : handleKeyUp(key)

\* The steps of NextLive that are startGame steps, and its enabling
\* condition: main() calls startGame right after the constructors
gameStarts == pc = "constructed" /\ pc' = "started"

\* The steps of NextLive that are animationFrame steps (startGame runs with
\* nothing pending), and its enabling condition: a scheduled callback runs
frameRuns == pending > 0 /\ now + TimeStep <= MaxTime /\ ticks' = ticks + 1

SpecLive ==
    Init /\ [][NextLive]_vars /\ WF_pc(gameStarts) /\ WF_ticks(frameRuns)

\* C17: the loop eventually runs a tick after which gameState is not
\* 'playing', nothing is scheduled and endGame has been called.
C17_LoopTerminates ==
    <>(/\ TickRan
       /\ gameState # "playing"
       /\ pending = 0
       /\ alerts # <<>>)

\* C17 witness: the loop was ended by the timeout, no hazard touched and
\* collectibles left
C17_Witness ==
    /\ TickRan
    /\ lastTick.startState = "playing"
    /\ lastTick.remaining = 0
    /\ Touching(lastTick.pre) \cap Hazards(lastTick.pre) = {}
    /\ Collectibles(gameObjects) # {}
    /\ pending = 0
    /\ alerts # <<>>

\* ---------------------------------------------------------------------
\* Re-initialization: GameModel.initializeGame called again
\* ---------------------------------------------------------------------
\* Variant of initializeGame: the score is not reset
initializeGame_KeepScore(m, rnd, firstId) ==
    [m EXCEPT !.state = "playing",
              !.objs = createGameObjects(rnd, firstId)]

\* GameModel.initializeGame on the model m = (state, score, objs)
initializeGame(m, rnd, firstId) ==
    [m EXCEPT !.state = "playing",
              !.score = 0,
              !.objs = createGameObjects(rnd, firstId)]

\* a call of model.initializeGame() in a started game; the history of the
\* last tick starts afresh
reinitialize ==
    /\ pc = "started"
    /\ nextId < MaxSpawns * NumObjects
    /\ \E rnd \in Streams :
         \E m \in {initializeGame([state |-> gameState, score |-> score,
                                   objs |-> gameObjects], rnd, nextId)} :
             /\ gameState' = m.state
             /\ score' = m.score
             /\ gameObjects' = m.objs
             /\ spawned' = m.objs
             /\ player' = m.objs[1].id
             /\ nextId' = nextId + Len(m.objs)
    /\ lastTick' = NoTick
    /\ UNCHANGED <<keys, pc, startTime, gameDuration, now, pending, alerts,
                   ticks, probe>>

\* the program with re-initializations; the wall clock is left alone
NextReinit ==
    \/ startGame
    \/ gameLoopTick
    \/ \E key \in KeyIds : handleKeyDown(key)
    \/ \E key \in KeyIds : handleKeyUp(key)
    \/ reinitialize

SpecReinit == Init /\ [][NextReinit]_vars

\* C11: model.player is the first element of gameObjects and no other
\* element is that object; it is opaque green; and no step changes the
\* colour of an entity that stays in gameObjects.
C11_PlayerIdentity ==
    /\ [](/\ Len(gameObjects) >= 1
          /\ gameObjects[1].id = player
          /\ Cardinality({i \in 1..Len(gameObjects) :
                             gameObjects[i].id = player}) = 1
          /\ gameObjects[1].color = <<0, 1, 0, 1>>)
    /\ [][\A i \in 1..Len(gameObjects) : \A j \in 1..Len(gameObjects') :
              gameObjects[i].id = gameObjects'[j].id =>
                  gameObjects[i].color = gameObjects'[j].color]_vars

\* C11 witness: in a re-initialized round, a tick has removed collectibles
C11_Witness ==
    /\ nextId = 3 * NumObjects
    /\ lastTick.pre # <<>>
    /\ Len(gameObjects) < Len(lastTick.pre)
    /\ gameObjects[1].id = player

\* C13: a step that runs initializeGame spawns 10 entities, none of them an
\* entity of the collection before, with model.player the first of them;
\* called on a started game it leaves score 0, gameState 'playing' and
\* gameObjects the fresh collection.
C13_Reinitialization ==
    [][nextId' # nextId =>
          /\ Len(spawned') = 10
          /\ Ids(spawned') \cap (Ids(gameObjects) \cup Ids(spawned)) = {}
          /\ player' = spawned'[1].id
          /\ pc = "started" =>
                 /\ score' = 0
                 /\ gameState' = "playing"
                 /\ gameObjects' = spawned']_vars

\* C13 witness: initializeGame was called after a round won with score 70
C13_Witness ==
    /\ nextId = 3 * NumObjects
    /\ alerts = <<"Congratulations! You won!">>
    /\ lastTick = NoTick
    /\ score = 0
    /\ gameState = "playing"
    /\ Len(gameObjects) = 10

====
